---- MODULE Spec2Model ----
(***************************************************************************)
(* Model of the seven quadrature rules of integration_techniques.c and of  *)
(* the random source they share.  Real arithmetic is exact: a double is a  *)
(* normalised fraction [num, den], and NAN is the fraction 0/0.  A pointer *)
(* is a sequence of length 0 (NULL) or 1 (the pointee).  A rule returns    *)
(* its value together with the list of evaluations f(x) it made and the    *)
(* coefficient under which each entered the sum.                           *)
(***************************************************************************)
EXTENDS Integers, Sequences, FiniteSets, TLC

\* ---- bounds of the explored requests ----
MaxN == 6
MaxLower == 1
MaxUpper == 2
MaxSeed == 1
MaxDraws == 3
\* largest value rand() returns, scaled down (the C library's RAND_MAX is at least 32767)
RAND_MAX == 2

VARIABLES params, method, ret, evals, drawn, rng

vars == <<params, method, ret, evals, drawn, rng>>

\* ---- exact arithmetic on fractions ----
NULL == <<>>

Abs(x) == IF x < 0 THEN -x ELSE x

RECURSIVE GCD(_, _)
GCD(x, y) == IF y = 0 THEN x ELSE GCD(y, x % y)

Rat(n, d) ==
  LET g == GCD(Abs(n), Abs(d))
      s == IF d < 0 THEN -1 ELSE 1
  IN  [num |-> s * (n \div g), den |-> s * (d \div g)]

Dbl(i) == [num |-> i, den |-> 1]

Half == [num |-> 1, den |-> 2]

NAN == [num |-> 0, den |-> 0]

isnan(r) == r.den = 0

RAdd(p, q) ==
  LET g == GCD(p.den, q.den)
  IN  Rat(p.num * (q.den \div g) + q.num * (p.den \div g), (p.den \div g) * q.den)

RNeg(p) == [num |-> -p.num, den |-> p.den]

RSub(p, q) == RAdd(p, RNeg(q))

RMul(p, q) ==
  LET g1 == GCD(Abs(p.num), q.den)
      g2 == GCD(Abs(q.num), p.den)
  IN  Rat((p.num \div g1) * (q.num \div g2), (p.den \div g2) * (q.den \div g1))

RDiv(p, q) == RMul(p, Rat(q.den, q.num))

RLe(p, q) == p.num * q.den <= q.num * p.den

RLt(p, q) == p.num * q.den < q.num * p.den

\* ---- the integrands ----
f_quadratic(x) == RMul(x, x)

\* f(x) through a MathFunction pointer
CallF(f, x) == IF f = <<"f_quadratic">> THEN f_quadratic(x) ELSE Dbl(0)

\* sum += c * f(x), remembering the evaluation
Accum(acc, c, f, x) ==
  [acc EXCEPT !.sum = RAdd(@, RMul(c, CallF(f, x))),
              !.evals = Append(@, [x |-> x, c |-> c])]

Acc0 == [sum |-> Dbl(0), evals |-> <<>>]

\* a + i * dx
GridX(a, i, dx) == RAdd(a, RMul(Dbl(i), dx))

\* ---- shared validation ----
is_invalid_no_bounds(p) ==
  p = NULL \/ p[1].func = NULL \/ p[1].num_intervals <= 0

is_invalid(p) ==
  p = NULL \/ p[1].func = NULL \/ p[1].num_intervals <= 0
    \/ RLe(p[1].upper_bound, p[1].lower_bound)

Invalid == [ret |-> NAN, evals |-> <<>>]

\* ---- 1. rectangle, left endpoint ----
RECURSIVE left_loop(_, _, _, _, _, _)
left_loop(i, n, a, dx, f, acc) ==
  IF i < n THEN left_loop(i + 1, n, a, dx, f, Accum(acc, Dbl(1), f, GridX(a, i, dx)))
  ELSE acc

rectangle_left_endpoint(p) ==
  IF is_invalid(p) THEN Invalid
  ELSE LET a == p[1].lower_bound
           b == p[1].upper_bound
           n == p[1].num_intervals
           f == p[1].func
           dx == RDiv(RSub(b, a), Dbl(n))
           acc == left_loop(0, n, a, dx, f, Acc0)
       IN  [ret |-> RMul(acc.sum, dx), evals |-> acc.evals]

\* ---- 2. rectangle, right endpoint ----
RECURSIVE right_loop_overrun(_, _, _, _, _, _)
right_loop_overrun(i, n, a, dx, f, acc) ==
  IF i <= n + 1
  THEN right_loop_overrun(i + 1, n, a, dx, f, Accum(acc, Dbl(1), f, GridX(a, i, dx)))
  ELSE acc

RECURSIVE right_loop(_, _, _, _, _, _)
right_loop(i, n, a, dx, f, acc) ==
  IF i <= n THEN right_loop(i + 1, n, a, dx, f, Accum(acc, Dbl(1), f, GridX(a, i, dx)))
  ELSE acc

rectangle_right_endpoint(p) ==
  IF is_invalid(p) THEN Invalid
  ELSE LET a == p[1].lower_bound
           b == p[1].upper_bound
           n == p[1].num_intervals
           f == p[1].func
           dx == RDiv(RSub(b, a), Dbl(n))
           acc == right_loop(1, n, a, dx, f, Acc0)
       IN  [ret |-> RMul(acc.sum, dx), evals |-> acc.evals]

\* ---- 3. rectangle, midpoint ----
RECURSIVE midpoint_loop(_, _, _, _, _, _)
midpoint_loop(i, n, a, dx, f, acc) ==
  IF i < n
  THEN midpoint_loop(i + 1, n, a, dx, f,
         Accum(acc, Dbl(1), f, RAdd(a, RMul(RAdd(Dbl(i), Half), dx))))
  ELSE acc

rectangle_midpoint(p) ==
  IF is_invalid(p) THEN Invalid
  ELSE LET a == p[1].lower_bound
           b == p[1].upper_bound
           n == p[1].num_intervals
           f == p[1].func
           dx == RDiv(RSub(b, a), Dbl(n))
           acc == midpoint_loop(0, n, a, dx, f, Acc0)
       IN  [ret |-> RMul(acc.sum, dx), evals |-> acc.evals]

\* ---- 4. trapezoidal rule ----
RECURSIVE trapezoidal_loop(_, _, _, _, _, _)
trapezoidal_loop(i, n, a, dx, f, acc) ==
  IF i < n
  THEN trapezoidal_loop(i + 1, n, a, dx, f, Accum(acc, Dbl(1), f, GridX(a, i, dx)))
  ELSE acc

\* double sum = 0.5 * (f(a) + f(b))
trapezoidal_endpoints_full(a, b, f) == Accum(Accum(Acc0, Dbl(1), f, a), Dbl(1), f, b)

trapezoidal_endpoints(a, b, f) == Accum(Accum(Acc0, Half, f, a), Half, f, b)

trapezoidal_rule(p) ==
  IF is_invalid(p) THEN Invalid
  ELSE LET a == p[1].lower_bound
           b == p[1].upper_bound
           n == p[1].num_intervals
           f == p[1].func
           dx == RDiv(RSub(b, a), Dbl(n))
           acc == trapezoidal_loop(1, n, a, dx, f, trapezoidal_endpoints(a, b, f))
       IN  [ret |-> RMul(acc.sum, dx), evals |-> acc.evals]

\* ---- 5. Simpson's 1/3 rule ----
simpsons_endpoints_missing_b(a, b, f) == Accum(Acc0, Dbl(1), f, a)

\* double sum = f(a) + f(b)
simpsons_endpoints(a, b, f) == Accum(Accum(Acc0, Dbl(1), f, a), Dbl(1), f, b)

RECURSIVE simpsons_1_3_odd_loop_coeff2(_, _, _, _, _, _)
simpsons_1_3_odd_loop_coeff2(i, n, a, dx, f, acc) ==
  IF i < n
  THEN simpsons_1_3_odd_loop_coeff2(i + 2, n, a, dx, f, Accum(acc, Dbl(2), f, GridX(a, i, dx)))
  ELSE acc

RECURSIVE simpsons_1_3_odd_loop(_, _, _, _, _, _)
simpsons_1_3_odd_loop(i, n, a, dx, f, acc) ==
  IF i < n
  THEN simpsons_1_3_odd_loop(i + 2, n, a, dx, f, Accum(acc, Dbl(4), f, GridX(a, i, dx)))
  ELSE acc

RECURSIVE simpsons_1_3_even_loop_incl(_, _, _, _, _, _)
simpsons_1_3_even_loop_incl(i, n, a, dx, f, acc) ==
  IF i <= n
  THEN simpsons_1_3_even_loop_incl(i + 2, n, a, dx, f, Accum(acc, Dbl(2), f, GridX(a, i, dx)))
  ELSE acc

RECURSIVE simpsons_1_3_even_loop(_, _, _, _, _, _)
simpsons_1_3_even_loop(i, n, a, dx, f, acc) ==
  IF i < n - 1
  THEN simpsons_1_3_even_loop(i + 2, n, a, dx, f, Accum(acc, Dbl(2), f, GridX(a, i, dx)))
  ELSE acc

simpsons_1_3_rule_unchecked(p) ==
  IF is_invalid(p) THEN Invalid
  ELSE LET a == p[1].lower_bound
           b == p[1].upper_bound
           n == p[1].num_intervals
           f == p[1].func
           dx == RDiv(RSub(b, a), Dbl(n))
           odd == simpsons_1_3_odd_loop(1, n, a, dx, f, simpsons_endpoints(a, b, f))
           acc == simpsons_1_3_even_loop(2, n, a, dx, f, odd)
       IN  [ret |-> RDiv(RMul(acc.sum, dx), Dbl(3)), evals |-> acc.evals]

simpsons_1_3_rule(p) ==
  IF is_invalid(p) THEN Invalid
  ELSE IF p[1].num_intervals % 2 # 0 THEN Invalid
  ELSE LET a == p[1].lower_bound
           b == p[1].upper_bound
           n == p[1].num_intervals
           f == p[1].func
           dx == RDiv(RSub(b, a), Dbl(n))
           odd == simpsons_1_3_odd_loop(1, n, a, dx, f, simpsons_endpoints(a, b, f))
           acc == simpsons_1_3_even_loop(2, n, a, dx, f, odd)
       IN  [ret |-> RDiv(RMul(acc.sum, dx), Dbl(3)), evals |-> acc.evals]

\* ---- 6. Simpson's 3/8 rule ----
RECURSIVE simpsons_3_8_loop_swapped(_, _, _, _, _, _)
simpsons_3_8_loop_swapped(i, n, a, dx, f, acc) ==
  IF i < n
  THEN simpsons_3_8_loop_swapped(i + 1, n, a, dx, f,
         IF i % 3 = 0 THEN Accum(acc, Dbl(3), f, GridX(a, i, dx))
                      ELSE Accum(acc, Dbl(2), f, GridX(a, i, dx)))
  ELSE acc

RECURSIVE simpsons_3_8_loop(_, _, _, _, _, _)
simpsons_3_8_loop(i, n, a, dx, f, acc) ==
  IF i < n
  THEN simpsons_3_8_loop(i + 1, n, a, dx, f,
         IF i % 3 = 0 THEN Accum(acc, Dbl(2), f, GridX(a, i, dx))
                      ELSE Accum(acc, Dbl(3), f, GridX(a, i, dx)))
  ELSE acc

simpsons_3_8_rule(p) ==
  IF is_invalid(p) THEN Invalid
  ELSE IF p[1].num_intervals % 3 # 0 THEN Invalid
  ELSE LET a == p[1].lower_bound
           b == p[1].upper_bound
           n == p[1].num_intervals
           f == p[1].func
           dx == RDiv(RSub(b, a), Dbl(n))
           acc == simpsons_3_8_loop(1, n, a, dx, f, simpsons_endpoints(a, b, f))
       IN  [ret |-> RDiv(RMul(RMul(acc.sum, dx), Dbl(3)), Dbl(8)), evals |-> acc.evals]

\* ---- the C library's random source ----
\* srand(seed): a fresh stream, nothing drawn from it yet
srand(seed) == [seed |-> seed, draws |-> 0]

\* rand(): the generator advances by one draw and yields v in 0..RAND_MAX
rand(g, v) == [rng |-> [g EXCEPT !.draws = @ + 1], value |-> v]

\* (double)rand() / RAND_MAX
unit_variate_shifted(v) == RDiv(Dbl(v + 1), Dbl(RAND_MAX))

unit_variate(v) == RDiv(Dbl(v), Dbl(RAND_MAX))

\* ---- 7. Monte Carlo integration ----
RECURSIVE monte_carlo_loop(_, _, _, _, _, _, _)
monte_carlo_loop(i, n, a, range, f, stream, acc) ==
  IF i < n
  THEN LET r == rand(acc.rng, stream[i + 1])
           random_x == RAdd(a, RMul(unit_variate(r.value), range))
       IN  monte_carlo_loop(i + 1, n, a, range, f, stream,
             [sum |-> RAdd(acc.sum, CallF(f, random_x)),
              evals |-> Append(acc.evals, [x |-> random_x, c |-> Dbl(1)]),
              drawn |-> Append(acc.drawn, r.value),
              rng |-> r.rng])
  ELSE acc

monte_carlo_integration_reseeding(p, g, stream) ==
  IF is_invalid(p) THEN [ret |-> NAN, evals |-> <<>>, drawn |-> <<>>, rng |-> g]
  ELSE LET a == p[1].lower_bound
           b == p[1].upper_bound
           n == p[1].num_intervals
           f == p[1].func
           range == RSub(b, a)
           acc == monte_carlo_loop(0, n, a, range, f, stream,
                    [sum |-> Dbl(0), evals |-> <<>>, drawn |-> <<>>, rng |-> srand(g.seed)])
       IN  [ret |-> RMul(RDiv(acc.sum, Dbl(n)), range), evals |-> acc.evals,
            drawn |-> acc.drawn, rng |-> acc.rng]

monte_carlo_integration(p, g, stream) ==
  IF is_invalid(p) THEN [ret |-> NAN, evals |-> <<>>, drawn |-> <<>>, rng |-> g]
  ELSE LET a == p[1].lower_bound
           b == p[1].upper_bound
           n == p[1].num_intervals
           f == p[1].func
           range == RSub(b, a)
           acc == monte_carlo_loop(0, n, a, range, f, stream,
                    [sum |-> Dbl(0), evals |-> <<>>, drawn |-> <<>>, rng |-> g])
       IN  [ret |-> RMul(RDiv(acc.sum, Dbl(n)), range), evals |-> acc.evals,
            drawn |-> acc.drawn, rng |-> acc.rng]

\* ---- the requests explored ----
Funcs == {NULL, <<"f_quadratic">>}

Intervals == -1 .. MaxN

Requests ==
  {NULL} \cup
  { <<[func |-> f, lower_bound |-> Dbl(lo), upper_bound |-> Dbl(hi), num_intervals |-> n]>> :
      f \in Funcs, lo \in 0 .. MaxLower, hi \in 0 .. MaxUpper, n \in Intervals }

\* how many values rand() can still hand out to a call with request p
StreamLen(p, g) ==
  IF p # NULL /\ p[1].num_intervals > 0 /\ g.draws + p[1].num_intervals <= MaxDraws
  THEN p[1].num_intervals ELSE 0

\* ---- state machine ----
\* main(): srand((unsigned int)time(NULL)) before any rule is called
Init ==
  /\ \E seed \in 0 .. MaxSeed : rng = srand(seed)
  /\ params = NULL
  /\ method = "none"
  /\ ret = NAN
  /\ evals = <<>>
  /\ drawn = <<>>

\* the caller builds the request of its next call
PrepareParams ==
  \E p \in Requests :
    /\ params' = p
    /\ method' = "none"
    /\ ret' = NAN
    /\ evals' = <<>>
    /\ drawn' = <<>>
    /\ UNCHANGED rng

\* double integral_result = methods[m_idx].func_ptr(&params), a rule without rand()
Deterministic(name, out) ==
  /\ method' = name
  /\ ret' = out.ret
  /\ evals' = out.evals
  /\ drawn' = <<>>
  /\ UNCHANGED <<params, rng>>

RectangleLeft == Deterministic("rectangle_left_endpoint", rectangle_left_endpoint(params))

RectangleRight == Deterministic("rectangle_right_endpoint", rectangle_right_endpoint(params))

RectangleMidpoint == Deterministic("rectangle_midpoint", rectangle_midpoint(params))

Trapezoidal == Deterministic("trapezoidal_rule", trapezoidal_rule(params))

Simpsons13 == Deterministic("simpsons_1_3_rule", simpsons_1_3_rule(params))

Simpsons38 == Deterministic("simpsons_3_8_rule", simpsons_3_8_rule(params))

MonteCarlo ==
  /\ IF is_invalid(params) THEN TRUE ELSE StreamLen(params, rng) = params[1].num_intervals
  /\ \E stream \in [1 .. StreamLen(params, rng) -> 0 .. RAND_MAX] :
       LET out == monte_carlo_integration(params, rng, stream)
       IN  /\ method' = "monte_carlo_integration"
           /\ ret' = out.ret
           /\ evals' = out.evals
           /\ drawn' = out.drawn
           /\ rng' = out.rng
           /\ UNCHANGED params

Next ==
  \/ PrepareParams
  \/ RectangleLeft
  \/ RectangleRight
  \/ RectangleMidpoint
  \/ Trapezoidal
  \/ Simpsons13
  \/ Simpsons38
  \/ MonteCarlo

Spec == Init /\ [][Next]_vars

\* ---- vocabulary of the properties ----
\* a well-formed request: function present, intervals > 0, upper > lower
Valid(p) ==
  /\ p # NULL
  /\ p[1].func # NULL
  /\ p[1].num_intervals > 0
  /\ RLt(p[1].lower_bound, p[1].upper_bound)

Called == method # "none"

N == params[1].num_intervals

Lower == params[1].lower_bound

Upper == params[1].upper_bound

\* the grid point of index i2/2 of the request: lower + (i2/2) * (upper - lower) / n
GridPoint2(p, i2) ==
  RAdd(p[1].lower_bound,
       RDiv(RMul(Dbl(i2), RSub(p[1].upper_bound, p[1].lower_bound)),
            Dbl(2 * p[1].num_intervals)))

GridPoint(p, i) == GridPoint2(p, 2 * i)

\* how many times x was evaluated, and the total coefficient applied there
CountAt(ev, x) == Cardinality({k \in DOMAIN ev : ev[k].x = x})

RECURSIVE WeightAt(_, _)
WeightAt(ev, x) ==
  IF ev = <<>> THEN Dbl(0)
  ELSE RAdd(IF Head(ev).x = x THEN Head(ev).c ELSE Dbl(0), WeightAt(Tail(ev), x))

RECURSIVE WeightSum(_)
WeightSum(ev) == IF ev = <<>> THEN Dbl(0) ELSE RAdd(Head(ev).c, WeightSum(Tail(ev)))

\* sum of c * x^2 over the evaluations
RECURSIVE QuadraticTotal(_)
QuadraticTotal(ev) ==
  IF ev = <<>> THEN Dbl(0)
  ELSE RAdd(RMul(Head(ev).c, RMul(Head(ev).x, Head(ev).x)), QuadraticTotal(Tail(ev)))

Points(ev) == {ev[k].x : k \in DOMAIN ev}

InRange(x) == RLe(Lower, x) /\ RLe(x, Upper)

Deterministic6 ==
  {"rectangle_left_endpoint", "rectangle_right_endpoint", "rectangle_midpoint",
   "trapezoidal_rule", "simpsons_1_3_rule", "simpsons_3_8_rule"}

\* C1: whatever the rule, an invalid request (function absent, intervals <= 0
\* or upper <= lower) returns NAN and the function is never invoked.
C1_InvalidYieldsNaN ==
  (Called /\ ~Valid(params)) => (isnan(ret) /\ evals = <<>>)

C1_Witness ==
  /\ method = "trapezoidal_rule"
  /\ params # NULL
  /\ params[1].func # NULL
  /\ N > 0
  /\ RLt(Upper, Lower)
  /\ isnan(ret)

\* C2: on a valid request Simpson's 1/3 returns NAN for an odd interval count
\* and Simpson's 3/8 for a count that is not a multiple of 3; otherwise each
\* evaluates the function and returns a number.
C2_SimpsonParity ==
  /\ (method = "simpsons_1_3_rule" /\ Valid(params)) =>
        IF N % 2 # 0 THEN isnan(ret) /\ evals = <<>>
        ELSE /\ ~isnan(ret)
             /\ evals # <<>>
             /\ ret = RMul(QuadraticTotal(evals),
                           RDiv(RDiv(RSub(Upper, Lower), Dbl(N)), Dbl(3)))
  /\ (method = "simpsons_3_8_rule" /\ Valid(params)) =>
        IF N % 3 # 0 THEN isnan(ret) /\ evals = <<>>
        ELSE /\ ~isnan(ret)
             /\ evals # <<>>
             /\ ret = RMul(QuadraticTotal(evals),
                           RMul(RDiv(RSub(Upper, Lower), Dbl(N)), Rat(3, 8)))

C2_Witness ==
  /\ method = "simpsons_1_3_rule"
  /\ Valid(params)
  /\ N = 3
  /\ isnan(ret)

\* C3 as stated: the weights Simpson's 1/3 applies add up to intervals.
C3_WeightSumIsN ==
  (method = "simpsons_1_3_rule" /\ Valid(params) /\ N % 2 = 0) =>
    WeightSum(evals) = Dbl(N)

\* C3 amended: the weights Simpson's 1/3 applies (1 per endpoint, 4 per odd
\* interior index, 2 per even interior index) add up to 3 * intervals.
C3_WeightSumIs3N ==
  (method = "simpsons_1_3_rule" /\ Valid(params) /\ N % 2 = 0) =>
    WeightSum(evals) = Dbl(3 * N)

C3_Witness ==
  /\ method = "simpsons_1_3_rule"
  /\ Valid(params)
  /\ N = 4
  /\ WeightSum(evals) = Dbl(12)

\* C4: Simpson's 1/3 on f(x) = x^2 over [0,1] returns exactly 1/3 for every
\* even interval count, i.e. the sum of w_i * i^2 over the grid is n^3.
C4_QuadraticExact ==
  (/\ method = "simpsons_1_3_rule"
   /\ Valid(params)
   /\ N % 2 = 0
   /\ params[1].func = <<"f_quadratic">>
   /\ Lower = Dbl(0)
   /\ Upper = Dbl(1)) =>
    /\ ret = Rat(1, 3)
    /\ RMul(QuadraticTotal(evals), Dbl(N * N)) = Dbl(N * N * N)

C4_Witness ==
  /\ method = "simpsons_1_3_rule"
  /\ params # NULL
  /\ params[1].func = <<"f_quadratic">>
  /\ N = 6
  /\ Lower = Dbl(0)
  /\ Upper = Dbl(1)
  /\ ret = Rat(1, 3)

\* C5 as stated: every Monte Carlo sample comes from a unit variate in [0,1),
\* so no sample point equals upper.
C5_VariateHalfOpen ==
  (method = "monte_carlo_integration" /\ Valid(params)) =>
    /\ Len(drawn) = N
    /\ \A k \in DOMAIN drawn :
         /\ RLe(Dbl(0), unit_variate(drawn[k]))
         /\ RLt(unit_variate(drawn[k]), Dbl(1))
    /\ \A k \in DOMAIN evals : evals[k].x # Upper

\* C5 amended: every Monte Carlo sample comes from a unit variate in the
\* closed range [0,1] (1 when rand() returns RAND_MAX), so every sample point
\* lies in [lower, upper], upper included.
C5_VariateClosed ==
  (method = "monte_carlo_integration" /\ Valid(params)) =>
    /\ Len(drawn) = N
    /\ Len(evals) = N
    /\ \A k \in DOMAIN drawn :
         /\ RLe(Dbl(0), unit_variate(drawn[k]))
         /\ RLe(unit_variate(drawn[k]), Dbl(1))
         /\ evals[k].x = RAdd(Lower, RMul(unit_variate(drawn[k]), RSub(Upper, Lower)))
         /\ InRange(evals[k].x)
         /\ (drawn[k] = RAND_MAX) => (evals[k].x = Upper)

C5_Witness ==
  /\ method = "monte_carlo_integration"
  /\ Valid(params)
  /\ \E k \in DOMAIN drawn : drawn[k] = RAND_MAX /\ evals[k].x = Upper

\* C6: only monte_carlo_integration changes the generator: the six
\* deterministic rules leave it as it is, no call reseeds or rewinds it, and a
\* Monte Carlo call advances it by intervals draws when the request is valid
\* and by none when it is not.
C6_RngFrame ==
  [][IF method' = "monte_carlo_integration"
     THEN rng' = [seed |-> rng.seed,
                  draws |-> rng.draws +
                    (IF Valid(params') THEN params'[1].num_intervals ELSE 0)]
     ELSE rng' = rng]_vars

C6_Witness ==
  /\ method = "monte_carlo_integration"
  /\ Valid(params)
  /\ rng.draws > N

\* C7: on a valid request the trapezoidal result is the mean of the left and
\* right rectangle results, and at every grid index the trapezoidal weight
\* (1/2 at the ends, 1 inside) is the mean of the left weight (1 on
\* 0..n-1) and the right weight (1 on 1..n).
C7_TrapezoidIsMean ==
  (method = "trapezoidal_rule" /\ Valid(params)) =>
    LET L == rectangle_left_endpoint(params)
        R == rectangle_right_endpoint(params)
    IN  /\ ret = RMul(Half, RAdd(L.ret, R.ret))
        /\ \A i \in 0 .. N :
             LET x == GridPoint(params, i)
             IN  /\ WeightAt(evals, x) = IF i \in {0, N} THEN Half ELSE Dbl(1)
                 /\ WeightAt(L.evals, x) = IF i <= N - 1 THEN Dbl(1) ELSE Dbl(0)
                 /\ WeightAt(R.evals, x) = IF i >= 1 THEN Dbl(1) ELSE Dbl(0)
                 /\ WeightAt(evals, x) =
                      RMul(Half, RAdd(WeightAt(L.evals, x), WeightAt(R.evals, x)))

C7_Witness ==
  /\ method = "trapezoidal_rule"
  /\ Valid(params)
  /\ N = 3
  /\ ~isnan(ret)

\* C8: Simpson's 1/3 on a valid request with even n evaluates each grid
\* index 0..n exactly once: weight 1 at 0 and n, 4 at the odd indices, 2 at the
\* even interior indices.
C8_Simpson13Weights ==
  (method = "simpsons_1_3_rule" /\ Valid(params) /\ N % 2 = 0) =>
    /\ Len(evals) = N + 1
    /\ \A i \in 0 .. N :
         LET x == GridPoint(params, i)
         IN  /\ CountAt(evals, x) = 1
             /\ WeightAt(evals, x) =
                  IF i \in {0, N} THEN Dbl(1)
                  ELSE IF i % 2 = 1 THEN Dbl(4) ELSE Dbl(2)

C8_Witness ==
  /\ method = "simpsons_1_3_rule"
  /\ Valid(params)
  /\ N = 2
  /\ Len(evals) = 3

\* C9: Simpson's 3/8 on a valid request with n a multiple of 3 evaluates each
\* grid index 0..n exactly once: weight 1 at 0 and n, 2 at the interior
\* multiples of 3, 3 elsewhere; the weighted total is multiplied by dx * 3/8.
C9_Simpson38Weights ==
  (method = "simpsons_3_8_rule" /\ Valid(params) /\ N % 3 = 0) =>
    /\ Len(evals) = N + 1
    /\ \A i \in 0 .. N :
         LET x == GridPoint(params, i)
         IN  /\ CountAt(evals, x) = 1
             /\ WeightAt(evals, x) =
                  IF i \in {0, N} THEN Dbl(1)
                  ELSE IF i % 3 = 0 THEN Dbl(2) ELSE Dbl(3)
    /\ ret = RMul(QuadraticTotal(evals),
                  RMul(RDiv(RSub(Upper, Lower), Dbl(N)), Rat(3, 8)))

C9_Witness ==
  /\ method = "simpsons_3_8_rule"
  /\ Valid(params)
  /\ N = 6
  /\ WeightAt(evals, GridPoint(params, 3)) = Dbl(2)

\* C10: on a valid request every point a deterministic rule evaluates lies in
\* [lower, upper]: left uses indices 0..n-1, right 1..n, midpoint the
\* half-indices i + 1/2 for i in 0..n-1, trapezoidal and both Simpson rules
\* indices within 0..n.
C10_PointsInRange ==
  (method \in Deterministic6 /\ Valid(params)) =>
    /\ \A k \in DOMAIN evals : InRange(evals[k].x)
    /\ method = "rectangle_left_endpoint" =>
         Points(evals) = {GridPoint(params, i) : i \in 0 .. N - 1}
    /\ method = "rectangle_right_endpoint" =>
         Points(evals) = {GridPoint(params, i) : i \in 1 .. N}
    /\ method = "rectangle_midpoint" =>
         Points(evals) = {GridPoint2(params, 2 * i + 1) : i \in 0 .. N - 1}
    /\ method \in {"trapezoidal_rule", "simpsons_1_3_rule", "simpsons_3_8_rule"} =>
         Points(evals) \subseteq {GridPoint(params, i) : i \in 0 .. N}

C10_Witness ==
  /\ method = "rectangle_right_endpoint"
  /\ Valid(params)
  /\ N = 3
  /\ \E k \in DOMAIN evals : evals[k].x = Upper
====
